---- MODULE Spec2Model ----
(***************************************************************************)
(* A model of tunnelcast: the card engine (src/src/engine.rs) and the      *)
(* host that drives it from key inputs and timer ticks (src/src/main.rs,   *)
(* src/src/gui.rs).                                                        *)
(*                                                                         *)
(* A Rust panic is modelled by the variable `panic`: it holds the panic    *)
(* message, the state keeps the mutations made before the panic, and no    *)
(* operation runs afterwards (the process has aborted).                    *)
(*                                                                         *)
(* Option<T> is modelled as a sequence: <<>> is None, <<v>> is Some(v).    *)
(* The card index of a workflow state is the Option<i32> of gui.rs's       *)
(* SharedState in every state.                                             *)
(* A State (HashMap<Attribute, i32>) is a function whose domain is the set *)
(* of keys present.  A Vec index i in the source is index i + 1 here.      *)
(***************************************************************************)
EXTENDS Integers, Sequences, FiniteSets

VARIABLES
    game_state,   \* struct GameState (engine.rs 98-106; player, enemy: main.rs 86, 95)
    gui_state,    \* Game.gui_state: enum GuiState (main.rs 38-47)
    panic,        \* "" while the process runs, else the panic that aborted it
    deck0,        \* history: number of cards of each CardId handed to GameState::new
    last          \* history: the last operation and what it did

vars == <<game_state, gui_state, panic, deck0, last>>

-----------------------------------------------------------------------------
(* Bounds of the model *)

\* Longest deck given to GameState::new in the engine specification.
MaxDeck == 3

\* Most add_entity calls in the engine specification.
MaxEntities == 2

\* Largest attribute value a PlayCard tick may produce in the engine
\* specification (Shields only ever grows).
MaxAttr == 2

\* Most effects of the card in the effect specification.
MaxEffects == 3

\* Most repetitions of one delta that are compared with its multiple.
MaxApply == 3

-----------------------------------------------------------------------------
(* Program constants *)

\* tick: draw_hand(game, 4)
BeginTurnCount == 4

\* init_state: draw_hand(&mut game_state, 4)
InitHandCount == 4

\* init_state: s.insert(Attribute::Hull, 10) / s.insert(Attribute::Shields, 10)
InitHull == 10
InitShields == 10

\* init_state: let player_id = 1 / let enemy_id = 2
PlayerId == 1
EnemyId == 2

\* handle_keyboard_input, TargetSelect, '1': let entity_idx = 1
TargetEntityIdx == 1

-----------------------------------------------------------------------------
(* Data *)

CardId == {"Shields", "Phasers"}

Attribute == {"Shields", "Hull"}

\* The EntityIds gen_id may return in the model (u32 in the source).
EntityId == {1, 2}

None == <<>>
Some(v) == <<v>>

\* enum Action.  engine.rs names the idle action None, main.rs and the spec Await.
Await == [kind |-> "Await"]
Draw == [kind |-> "Draw"]
BeginTurn == [kind |-> "BeginTurn"]
EndTurn == [kind |-> "EndTurn"]
PlayCard(target, idx) == [kind |-> "PlayCard", target |-> target, idx |-> idx]

\* No action: the value of last.consumed when the last operation ran no tick.
NoAction == [kind |-> "-"]

-----------------------------------------------------------------------------
(* Sequence helpers: what Vec gives the code *)

Min(a, b) == IF a <= b THEN a ELSE b

Last(s) == s[Len(s)]

Front(s) == SubSeq(s, 1, Len(s) - 1)

\* Vec::remove(i): i is the index here (1-based).
RemoveAt(s, i) == SubSeq(s, 1, i - 1) \o SubSeq(s, i + 1, Len(s))

\* Number of occurrences of c in s.
Count(s, c) == Cardinality({i \in 1..Len(s) : s[i] = c})

\* iter().position(|x| x == v): the first index holding v, 0 if there is none.
Position(s, v) ==
    IF \E i \in 1..Len(s) : s[i] = v
    THEN CHOOSE i \in 1..Len(s) : s[i] = v /\ \A j \in 1..(i - 1) : s[j] # v
    ELSE 0

\* Every order of the elements of s.
RECURSIVE Perms(_)
Perms(s) ==
    IF s = <<>> THEN {<<>>}
    ELSE UNION {{<<s[i]>> \o p : p \in Perms(RemoveAt(s, i))} : i \in 1..Len(s)}

\* Number of cards of each CardId in the three piles of g.
PileCount(g) ==
    [c \in CardId |-> Count(g.draw, c) + Count(g.hand, c) + Count(g.discard, c)]

-----------------------------------------------------------------------------
(* Effects and cards *)

\* Effect::calculate for IncreaseShields and DamageHull.
calculate(fx, g, ent_id) ==
    IF fx = "IncreaseShields" THEN [k \in {"Shields"} |-> 1]
    ELSE [k \in {"Hull"} |-> -1]

\* The catalog built by init_state / test_integration.
StandardCards ==
    [c \in CardId |->
        IF c = "Shields"
        THEN [effects |-> <<"IncreaseShields">>, target |-> "Player"]
        ELSE [effects |-> <<"DamageHull">>, target |-> "Single"]]

\* A catalog with a card of several effects and with no Phasers entry
\* (CardCollection::insert accepts any Card; GameState::new accepts any deck).
PartialCards ==
    [c \in {"Shields"} |->
        [effects |-> <<"IncreaseShields", "DamageHull", "IncreaseShields">>,
         target |-> "Player"]]

Catalogs == {StandardCards, PartialCards}

\* The merge loop with accum.insert(k, v) for a key already present: the later
\* effect replaces the earlier ones.
MergeEffect_insert(accum, effect) ==
    [k \in DOMAIN accum \cup DOMAIN effect |->
        IF k \in DOMAIN effect THEN effect[k] ELSE accum[k]]

\* The merge loop of tick: sum the effect into the accumulator key by key.
MergeEffect(accum, effect) ==
    [k \in DOMAIN accum \cup DOMAIN effect |->
        IF k \in DOMAIN accum
        THEN accum[k] + (IF k \in DOMAIN effect THEN effect[k] ELSE 0)
        ELSE effect[k]]

EmptyState == [k \in {} |-> 0]

\* The accumulator after the first n effects of the card.
RECURSIVE Accum(_, _, _, _)
Accum(effects, n, g, ent_id) ==
    IF n = 0 THEN EmptyState
    ELSE MergeEffect(Accum(effects, n - 1, g, ent_id),
                     calculate(effects[n], g, ent_id))

-----------------------------------------------------------------------------
(* GameState *)

\* GameState::new
NewGameState(cards, deck) ==
    [cards |-> cards, draw |-> deck, hand |-> <<>>, discard |-> <<>>,
     action |-> Await, entities |-> <<>>, entity_state |-> [e \in {} |-> EmptyState],
     player |-> 0, enemy |-> None]

\* add_entity with the id already chosen (gen_id, or the id init_state gives).
add_entity(g, entity_id, entity) ==
    [g EXCEPT
        !.entities = Append(g.entities, entity_id),
        !.entity_state =
            [e \in DOMAIN g.entity_state \cup {entity_id} |->
                IF e = entity_id THEN entity ELSE g.entity_state[e]]]

\* gen_id: rand::random::<u32>(), any id.
gen_id == EntityId

\* The outcome of a fallible step: the game and the panic message ("" if none).
Ok(g) == [g |-> g, panic |-> ""]
Panicked(g, msg) == [g |-> g, panic |-> msg]

\* remove_entity taking the last id off the live id list (entities.pop())
\* instead of the one at the position found.
remove_entity_pop(g, entity_id) ==
    LET index == Position(g.entities, entity_id)
    IN  IF index = 0 THEN Panicked(g, "EntityId not found")
        ELSE Ok([g EXCEPT
                !.entities = Front(g.entities),
                !.entity_state =
                    [e \in DOMAIN g.entity_state \ {entity_id} |-> g.entity_state[e]]])

\* remove_entity: entities.remove(position of the id), entity_state.remove(id).
remove_entity(g, entity_id) ==
    LET index == Position(g.entities, entity_id)
    IN  IF index = 0 THEN Panicked(g, "EntityId not found")
        ELSE Ok([g EXCEPT
                !.entities = RemoveAt(g.entities, index),
                !.entity_state =
                    [e \in DOMAIN g.entity_state \ {entity_id} |-> g.entity_state[e]]])

\* for (k, v) in state.iter() { entity_state.insert(*k, *v) }: the delta
\* replaces the value.
AddDelta_insert(st, delta) ==
    [k \in DOMAIN st \cup DOMAIN delta |->
        IF k \in DOMAIN delta THEN delta[k] ELSE st[k]]

\* for (k, v) in state.iter() { *entity_state.entry(*k).or_insert(0) += v }
AddDelta(st, delta) ==
    [k \in DOMAIN st \cup DOMAIN delta |->
        (IF k \in DOMAIN st THEN st[k] ELSE 0)
        + (IF k \in DOMAIN delta THEN delta[k] ELSE 0)]

apply_effect(g, entity_id, delta) ==
    IF entity_id \notin DOMAIN g.entity_state
    THEN Panicked(g, "Failed ot get entity")
    ELSE LET st == AddDelta(g.entity_state[entity_id], delta)
             g1 == [g EXCEPT !.entity_state[entity_id] = st]
         IN  IF "Hull" \notin DOMAIN st
             THEN Panicked(g1, "called Option::unwrap() on a None value")
             ELSE IF st["Hull"] <= 0
                  THEN remove_entity(g1, entity_id)
                  ELSE Ok(g1)

-----------------------------------------------------------------------------
(* Piles *)

\* shuffle_deck: the orders deck.shuffle(&mut rng) can leave.
shuffle_deck(deck) == Perms(deck)

\* draw_hand: count times, pop the draw pile into the hand if it is not empty.
\* draw_hand taking the cards with game.draw.remove(0): from the bottom of the
\* draw pile.
RECURSIVE draw_hand_first(_, _)
draw_hand_first(g, count) ==
    IF count = 0 THEN g
    ELSE IF g.draw = <<>> THEN draw_hand_first(g, count - 1)
    ELSE draw_hand_first([g EXCEPT !.draw = Tail(g.draw),
                                   !.hand = Append(g.hand, Head(g.draw))],
                         count - 1)

RECURSIVE draw_hand(_, _)
draw_hand(g, count) ==
    IF count = 0 THEN g
    ELSE IF g.draw = <<>> THEN draw_hand(g, count - 1)
    ELSE draw_hand([g EXCEPT !.draw = Front(g.draw),
                             !.hand = Append(g.hand, Last(g.draw))],
                   count - 1)

\* discard_hand putting the hand under the discard pile.
discard_hand_under(g) ==
    [g EXCEPT !.discard = g.hand \o g.discard, !.hand = <<>>]

\* discard_hand that copies the hand instead of moving it (extend_from_slice
\* in place of append): the hand is left as it was.
discard_hand_copy(g) ==
    [g EXCEPT !.discard = g.discard \o g.hand]

\* discard_hand: game.discard.append(&mut game.hand)
discard_hand(g) ==
    [g EXCEPT !.discard = g.discard \o g.hand, !.hand = <<>>]

\* Action::Draw with the pop placed before the refill: a draw from an empty
\* draw pile refills it and draws nothing.
TickDraw_pop_first(g) ==
    IF g.draw = <<>>
    THEN {[g EXCEPT !.draw = d, !.discard = <<>>] : d \in shuffle_deck(g.discard)}
    ELSE {[g EXCEPT !.draw = Front(g.draw), !.hand = Append(g.hand, Last(g.draw))]}

\* tick, Action::Draw: the outcomes, one per order the shuffle can leave.
TickDraw(g) ==
    LET refilled ==
            IF g.draw = <<>>
            THEN {[g EXCEPT !.draw = d, !.discard = <<>>] : d \in shuffle_deck(g.discard)}
            ELSE {g}
    IN  {IF g1.draw = <<>> THEN g1
         ELSE [g1 EXCEPT !.draw = Front(g1.draw),
                         !.hand = Append(g1.hand, Last(g1.draw))] : g1 \in refilled}

\* Vec::swap_remove(i): the last element takes the place of the removed one.
SwapRemoveAt(s, i) ==
    IF i = Len(s) THEN Front(s) ELSE [Front(s) EXCEPT ![i] = Last(s)]

\* Action::PlayCard with game.hand.swap_remove(card_idx) for game.hand.remove(card_idx).
TickPlayCard_swap_remove(g, target_ent_idx, card_idx) ==
    IF card_idx < 0 \/ card_idx >= Len(g.hand)
    THEN Panicked(g, "index out of bounds")
    ELSE LET card_id == g.hand[card_idx + 1]
         IN  IF card_id \notin DOMAIN g.cards
             THEN Panicked(g, "Could not find card")
             ELSE LET effects == g.cards[card_id].effects
                      accum == Accum(effects, Len(effects), g, target_ent_idx)
                      g1 == [g EXCEPT !.discard = Append(g.discard, card_id),
                                      !.hand = SwapRemoveAt(g.hand, card_idx + 1)]
                  IN  apply_effect(g1, target_ent_idx, accum)

\* tick, Action::PlayCard
TickPlayCard(g, target_ent_idx, card_idx) ==
    IF card_idx < 0 \/ card_idx >= Len(g.hand)
    THEN Panicked(g, "index out of bounds")
    ELSE LET card_id == g.hand[card_idx + 1]
         IN  IF card_id \notin DOMAIN g.cards
             THEN Panicked(g, "Could not find card")
             ELSE LET effects == g.cards[card_id].effects
                      accum == Accum(effects, Len(effects), g, target_ent_idx)
                      g1 == [g EXCEPT !.discard = Append(g.discard, card_id),
                                      !.hand = RemoveAt(g.hand, card_idx + 1)]
                  IN  apply_effect(g1, target_ent_idx, accum)

\* tick ending with game.action = Action::None: the engine itself goes back to
\* idle.
tick_resets_action(g) ==
    LET idle(o) == [o EXCEPT !.g.action = Await]
    IN  CASE g.action.kind = "Await" -> {Ok(g)}
          [] g.action.kind = "Draw" -> {idle(Ok(g1)) : g1 \in TickDraw(g)}
          [] g.action.kind = "PlayCard" ->
                {idle(TickPlayCard(g, g.action.target, g.action.idx))}
          [] g.action.kind = "BeginTurn" -> {idle(Ok(draw_hand(g, BeginTurnCount)))}
          [] g.action.kind = "EndTurn" -> {idle(Ok(discard_hand(g)))}

\* tick: the set of outcomes of one tick of g.
tick(g) ==
    CASE g.action.kind = "Await" -> {Ok(g)}
      [] g.action.kind = "Draw" -> {Ok(g1) : g1 \in TickDraw(g)}
      [] g.action.kind = "PlayCard" -> {TickPlayCard(g, g.action.target, g.action.idx)}
      [] g.action.kind = "BeginTurn" -> {Ok(draw_hand(g, BeginTurnCount))}
      [] g.action.kind = "EndTurn" -> {Ok(discard_hand(g))}

-----------------------------------------------------------------------------
(* The engine driven through its public surface: GameState::new, add_entity, *)
(* the pub field action, and tick (as test_integration drives it).           *)

\* The state of Game before Game::new has run: no workflow.
NoGui == [state |-> "None"]

\* The decks GameState::new is given: every sequence of at most MaxDeck cards.
Decks == UNION {[1..n -> CardId] : n \in 0..MaxDeck}

\* The entities add_entity is given: Box<dyn Entity> with any State.
NewEntities == {[k \in {"Hull"} |-> 1], [Hull |-> 0, Shields |-> 0], [k \in {"Shields"} |-> 0]}

\* The actions a caller stores in game.action.
PendingActions(g) ==
    {Await, Draw, BeginTurn, EndTurn}
        \cup {PlayCard(t, i) : t \in EntityId, i \in (-1)..Len(g.hand)}

Op(op, key, from, consumed, removed, reshuffled) ==
    [op |-> op, key |-> key, from |-> from, consumed |-> consumed,
     removed |-> removed, reshuffled |-> reshuffled]

\* The history after an operation that is no tick and no host call.
NoOp == Op("", "", "", NoAction, FALSE, FALSE)

EngineInit ==
    /\ \E cards \in Catalogs, deck \in Decks :
          game_state = NewGameState(cards, deck)
    /\ gui_state = NoGui
    /\ panic = ""
    /\ deck0 = PileCount(game_state)
    /\ last = NoOp

\* game.add_entity(..) with a generated id.  Its callers register while no
\* action is pending (test_integration and init_state before the first tick;
\* update leaves Await after every tick).
AddEntity ==
    /\ panic = ""
    /\ game_state.action = Await
    /\ Len(game_state.entities) < MaxEntities
    /\ \E entity_id \in gen_id, entity \in NewEntities :
          game_state' = add_entity(game_state, entity_id, entity)
    /\ last' = NoOp
    /\ UNCHANGED <<gui_state, panic, deck0>>

\* Every attribute value of every entity of g is at most MaxAttr.
WithinAttrBound(g) ==
    \A e \in DOMAIN g.entity_state :
        \A k \in DOMAIN g.entity_state[e] : g.entity_state[e][k] <= MaxAttr

\* What a tick of g with outcome o did, for the history variable.
TickOp(op, key, from, g, o) ==
    Op(op, key, from, g.action,
       Len(o.g.entities) < Len(g.entities),
       g.action.kind = "Draw" /\ g.draw = <<>> /\ g.discard # <<>>)

\* game.action = a; tick(&mut game), as test_integration drives the engine.
Tick ==
    /\ panic = ""
    /\ \E a \in PendingActions(game_state) :
          LET g == [game_state EXCEPT !.action = a]
          IN  \E o \in tick(g) :
                /\ WithinAttrBound(o.g)
                /\ game_state' = o.g
                /\ panic' = o.panic
                /\ last' = TickOp("tick", "", "", g, o)
    /\ UNCHANGED <<gui_state, deck0>>

EngineNext == AddEntity \/ Tick

Spec == EngineInit /\ [][EngineNext]_vars

-----------------------------------------------------------------------------
(* The effect specification: one registered entity, a card of any effects,  *)
(* and deltas applied by a play or directly (test_apply_effects)            *)

\* The structs that implement Effect.
Effects == {"IncreaseShields", "DamageHull"}

\* Catalogs whose Shields card has any sequence of effects (Card.effects is a
\* Vec<Box<dyn Effect>>).
EffectCatalogs ==
    {[c \in {"Shields"} |-> [effects |-> fx, target |-> "Player"]] :
        fx \in UNION {[1..n -> Effects] : n \in 0..MaxEffects}}

\* Decks of that card.
EffectDecks == {[i \in 1..n |-> "Shields"] : n \in 0..MaxDeck}

\* States of the entity registered at the start.
EffectEntities ==
    {[k \in {"Hull"} |-> 2], [k \in {"Hull"} |-> 1], [k \in {"Shields"} |-> 0],
     [Hull |-> 2, Shields |-> 0], [Hull |-> 1, Shields |-> 0]}

\* A StateChange (EntityId, State) handed to apply_effect, as last.consumed.
StateChange(entity_id, delta) ==
    [kind |-> "StateChange", target |-> entity_id, delta |-> delta]

\* GameState::new and one add_entity.
EffectInit ==
    /\ \E cards \in EffectCatalogs, deck \in EffectDecks,
          entity_id \in gen_id, entity \in EffectEntities :
            game_state = add_entity(NewGameState(cards, deck), entity_id, entity)
    /\ gui_state = NoGui
    /\ panic = ""
    /\ deck0 = PileCount(game_state)
    /\ last = NoOp

\* game.apply_effect((id, effect.calculate(&game, id))), as test_apply_effects
\* calls it.
ApplyEffect ==
    /\ panic = ""
    /\ \E entity_id \in EntityId, fx \in Effects :
            LET delta == calculate(fx, game_state, entity_id)
                o == apply_effect(game_state, entity_id, delta)
            IN  /\ WithinAttrBound(o.g)
                /\ game_state' = o.g
                /\ panic' = o.panic
                /\ last' = Op("apply_effect", "", "", StateChange(entity_id, delta),
                              Len(o.g.entities) < Len(game_state.entities), FALSE)
    /\ UNCHANGED <<gui_state, deck0>>

EffectNext == ApplyEffect \/ Tick

EffectSpec == EffectInit /\ [][EffectNext]_vars

-----------------------------------------------------------------------------
(* The interaction workflow (gui.rs, and the transitions main.rs calls) *)

\* GuiStateMachine::<Combat>::new(enemy): no pending card index.
NewCombat(enemy_id) ==
    [state |-> "Combat", card_idx |-> None, enemy_id |-> enemy_id]

\* GuiStateMachine::<TargetSelect>::transition_from(_, TargetSelectArgs {card_idx, targets})
ToTargetSelect(card_idx, targets) ==
    [state |-> "TargetSelect", card_idx |-> Some(card_idx), targets |-> targets]

\* GuiStateMachine::<TargetSelectComplete>::transition_from(state, TargetSelectCompleteArgs {target})
ToTargetSelectComplete(gui, target) ==
    [state |-> "TargetSelectComplete", card_idx |-> gui.card_idx, target |-> target]

-----------------------------------------------------------------------------
(* The host: struct Game (main.rs) *)

\* A Game value: the two fields of struct Game.
MkGame(g, gui) == [game_state |-> g, gui_state |-> gui]

GameOk(g, gui) == [game |-> MkGame(g, gui), panic |-> ""]
GamePanicked(g, gui, msg) == [game |-> MkGame(g, gui), panic |-> msg]

\* The keys the model feeds handle_keyboard_input: 'e', 'q', the digits that
\* can select a card of a hand of InitHandCount cards, one digit too large,
\* and one key that no branch names.
Keys == {"e", "q", "x", "1", "2", "3", "4", "5"}

Digits == {"1", "2", "3", "4", "5", "6", "7", "8", "9"}

\* char::to_digit(10)
to_digit(c) ==
    CASE c = "1" -> 1 [] c = "2" -> 2 [] c = "3" -> 3 [] c = "4" -> 4 [] c = "5" -> 5
      [] c = "6" -> 6 [] c = "7" -> 7 [] c = "8" -> 8 [] c = "9" -> 9

\* Game::init_state, for the order the shuffle left the deck in.
init_state(deck) ==
    LET g0 == NewGameState(StandardCards, deck)
        s == [Hull |-> InitHull, Shields |-> InitShields]
        g1 == [add_entity(g0, PlayerId, s) EXCEPT !.player = PlayerId]
        g2 == [add_entity(g1, EnemyId, s) EXCEPT !.enemy = Some(EnemyId)]
    IN  draw_hand(g2, InitHandCount)

\* init_deck of init_state, before the shuffle.
InitDeck == <<"Shields", "Shields", "Shields", "Phasers", "Phasers", "Phasers">>

\* The Combat branch handing the digit typed, not the vector index, to the
\* target selection.
KeyCombat_digit_as_index(g, gui, input) ==
    IF input = "e" THEN GameOk([g EXCEPT !.action = EndTurn], gui)
    ELSE IF input \in Digits /\ to_digit(input) <= Len(g.hand)
    THEN LET card_idx == to_digit(input) - 1
             card_id == g.hand[card_idx + 1]
         IN  IF card_id \notin DOMAIN g.cards
             THEN GamePanicked(g, gui, "called Option::unwrap() on a None value")
             ELSE IF g.cards[card_id].target = "Player"
             THEN GameOk([g EXCEPT !.action = PlayCard(g.player, card_idx)], gui)
             ELSE IF g.enemy = None
             THEN GamePanicked(g, gui, "Can't target if there are no enemies")
             ELSE GameOk(g, ToTargetSelect(to_digit(input), <<g.enemy[1]>>))
    ELSE GameOk(g, gui)

\* The Combat branch entering the target selection for a Target::Player card
\* as well as setting its action.
KeyCombat_enters_select(g, gui, input) ==
    IF input = "e" THEN GameOk([g EXCEPT !.action = EndTurn], gui)
    ELSE IF input \in Digits /\ to_digit(input) <= Len(g.hand)
    THEN LET card_idx == to_digit(input) - 1
             card_id == g.hand[card_idx + 1]
         IN  IF card_id \notin DOMAIN g.cards
             THEN GamePanicked(g, gui, "called Option::unwrap() on a None value")
             ELSE IF g.cards[card_id].target = "Player"
             THEN GameOk([g EXCEPT !.action = PlayCard(g.player, card_idx)],
                        ToTargetSelect(card_idx, <<g.player>>))
             ELSE IF g.enemy = None
             THEN GamePanicked(g, gui, "Can't target if there are no enemies")
             ELSE GameOk(g, ToTargetSelect(card_idx, <<g.enemy[1]>>))
    ELSE GameOk(g, gui)

\* The Combat branch skipping the selection when there is a single enemy (the
\* TODO of the Target::Single arm).
KeyCombat_skips_select(g, gui, input) ==
    IF input = "e" THEN GameOk([g EXCEPT !.action = EndTurn], gui)
    ELSE IF input \in Digits /\ to_digit(input) <= Len(g.hand)
    THEN LET card_idx == to_digit(input) - 1
             card_id == g.hand[card_idx + 1]
         IN  IF card_id \notin DOMAIN g.cards
             THEN GamePanicked(g, gui, "called Option::unwrap() on a None value")
             ELSE IF g.cards[card_id].target = "Player"
             THEN GameOk([g EXCEPT !.action = PlayCard(g.player, card_idx)], gui)
             ELSE IF g.enemy = None
             THEN GamePanicked(g, gui, "Can't target if there are no enemies")
             ELSE GameOk(g, ToTargetSelectComplete(ToTargetSelect(card_idx, <<g.enemy[1]>>),
                                               g.enemy[1]))
    ELSE GameOk(g, gui)

\* The Combat branch offering the player, not the enemy, as the candidate.
KeyCombat_player_candidate(g, gui, input) ==
    IF input = "e" THEN GameOk([g EXCEPT !.action = EndTurn], gui)
    ELSE IF input \in Digits /\ to_digit(input) <= Len(g.hand)
    THEN LET card_idx == to_digit(input) - 1
             card_id == g.hand[card_idx + 1]
         IN  IF card_id \notin DOMAIN g.cards
             THEN GamePanicked(g, gui, "called Option::unwrap() on a None value")
             ELSE IF g.cards[card_id].target = "Player"
             THEN GameOk([g EXCEPT !.action = PlayCard(g.player, card_idx)], gui)
             ELSE IF g.enemy = None
             THEN GamePanicked(g, gui, "Can't target if there are no enemies")
             ELSE GameOk(g, ToTargetSelect(card_idx, <<g.player>>))
    ELSE GameOk(g, gui)

\* handle_keyboard_input, GuiState::Combat
KeyCombat(g, gui, input) ==
    IF input = "e" THEN GameOk([g EXCEPT !.action = EndTurn], gui)
    ELSE IF input \in Digits /\ to_digit(input) <= Len(g.hand)
    THEN LET card_idx == to_digit(input) - 1
             card_id == g.hand[card_idx + 1]
         IN  IF card_id \notin DOMAIN g.cards
             THEN GamePanicked(g, gui, "called Option::unwrap() on a None value")
             ELSE IF g.cards[card_id].target = "Player"
             THEN GameOk([g EXCEPT !.action = PlayCard(g.player, card_idx)], gui)
             ELSE IF g.enemy = None
             THEN GamePanicked(g, gui, "Can't target if there are no enemies")
             ELSE GameOk(g, ToTargetSelect(card_idx, <<g.enemy[1]>>))
    ELSE GameOk(g, gui)

\* The TargetSelect branch with the cancel written as the conversion of gui.rs
\* (From<&GuiStateMachine<TargetSelect>> for GuiStateMachine<Combat>), which
\* carries the card index over.
KeyTargetSelect_cancel_keeps_idx(g, gui, input) ==
    IF input = "q"
    THEN IF g.enemy = None
         THEN GamePanicked(g, gui, "called Option::unwrap() on a None value")
         ELSE GameOk(g, [NewCombat(g.enemy[1]) EXCEPT !.card_idx = gui.card_idx])
    ELSE IF input = "1"
    THEN IF TargetEntityIdx >= Len(g.entities)
         THEN GamePanicked(g, gui, "index out of bounds")
         ELSE GameOk(g, ToTargetSelectComplete(gui, g.entities[TargetEntityIdx + 1]))
    ELSE GameOk(g, gui)

\* The TargetSelect branch with the chosen target read at index 0 of the
\* entity list.
KeyTargetSelect_first_entity(g, gui, input) ==
    IF input = "q"
    THEN IF g.enemy = None
         THEN GamePanicked(g, gui, "called Option::unwrap() on a None value")
         ELSE GameOk(g, NewCombat(g.enemy[1]))
    ELSE IF input = "1"
    THEN IF 0 >= Len(g.entities)
         THEN GamePanicked(g, gui, "index out of bounds")
         ELSE GameOk(g, ToTargetSelectComplete(gui, g.entities[1]))
    ELSE GameOk(g, gui)

\* handle_keyboard_input, GuiState::TargetSelect
KeyTargetSelect(g, gui, input) ==
    IF input = "q"
    THEN IF g.enemy = None
         THEN GamePanicked(g, gui, "called Option::unwrap() on a None value")
         ELSE GameOk(g, NewCombat(g.enemy[1]))
    ELSE IF input = "1"
    THEN LET entity_idx == TargetEntityIdx
         IN  IF entity_idx >= Len(g.entities)
             THEN GamePanicked(g, gui, "index out of bounds")
             ELSE GameOk(g, ToTargetSelectComplete(gui, g.entities[entity_idx + 1]))
    ELSE GameOk(g, gui)

\* The TargetSelectComplete branch of handle_keyboard_input and of update.
CompleteTargetSelect(g, gui) ==
    LET target_id == gui.target
        card_idx == gui.card_idx[1]
    IN  IF g.enemy = None
        THEN GamePanicked(g, gui, "called Option::unwrap() on a None value")
        ELSE GameOk([g EXCEPT !.action = PlayCard(target_id, card_idx)],
                    NewCombat(g.enemy[1]))

\* Game::handle_keyboard_input
handle_keyboard_input(g, gui, input) ==
    CASE gui.state = "Combat" -> KeyCombat(g, gui, input)
      [] gui.state = "TargetSelect" -> KeyTargetSelect(g, gui, input)
      [] gui.state = "TargetSelectComplete" -> CompleteTargetSelect(g, gui)

\* Game::update without its last assignment (action = Action::Await).
update_keeps_action(g, gui) ==
    LET first == IF gui.state = "TargetSelectComplete"
                 THEN CompleteTargetSelect(g, gui)
                 ELSE GameOk(g, gui)
    IN  IF first.panic # "" THEN {first}
        ELSE {IF o.panic # ""
              THEN GamePanicked(o.g, first.game.gui_state, o.panic)
              ELSE GameOk(o.g, first.game.gui_state)
                : o \in tick(first.game.game_state)}

\* Game::update: the set of outcomes.
update(g, gui) ==
    LET first == IF gui.state = "TargetSelectComplete"
                 THEN CompleteTargetSelect(g, gui)
                 ELSE GameOk(g, gui)
    IN  IF first.panic # "" THEN {first}
        ELSE {IF o.panic # ""
              THEN GamePanicked(o.g, first.game.gui_state, o.panic)
              ELSE GameOk([o.g EXCEPT !.action = Await], first.game.gui_state)
                : o \in tick(first.game.game_state)}

\* The action update's tick runs with.
UpdateConsumes(g, gui) ==
    IF gui.state = "TargetSelectComplete"
    THEN CompleteTargetSelect(g, gui).game.game_state.action
    ELSE g.action

\* Game::new, for every order shuffle_deck can leave the deck in.
HostInit ==
    /\ \E deck \in shuffle_deck(InitDeck) : game_state = init_state(deck)
    /\ gui_state = NewCombat(game_state.enemy[1])
    /\ panic = ""
    /\ deck0 = PileCount(game_state)
    /\ last = NoOp

HandleKeyboardInput ==
    /\ panic = ""
    /\ \E input \in Keys :
          LET o == handle_keyboard_input(game_state, gui_state, input)
          IN  /\ game_state' = o.game.game_state
              /\ gui_state' = o.game.gui_state
              /\ panic' = o.panic
              /\ last' = Op("key", input, gui_state.state, NoAction, FALSE, FALSE)
    /\ UNCHANGED deck0

Update ==
    /\ panic = ""
    /\ \E o \in update(game_state, gui_state) :
          /\ game_state' = o.game.game_state
          /\ gui_state' = o.game.gui_state
          /\ panic' = o.panic
          /\ last' = Op("update", "", gui_state.state,
                        UpdateConsumes(game_state, gui_state),
                        Len(o.game.game_state.entities) < Len(game_state.entities),
                        FALSE)
    /\ UNCHANGED deck0

HostNext == HandleKeyboardInput \/ Update

HostSpec == HostInit /\ [][HostNext]_vars

-----------------------------------------------------------------------------
(* Steps, as the history variable tells them *)

\* The step is a tick of the engine specification that ran action kind k.
TickStepOf(k) == last'.op = "tick" /\ last'.consumed.kind = k

\* The step is a call of handle_keyboard_input with this key.
KeyStep(input) == last'.op = "key" /\ last'.key = input

\* The step is a call of update.
UpdateStep == last'.op = "update"

\* The hand index is one of the hand.
InHand(idx, hand) == idx \in 0..(Len(hand) - 1)

-----------------------------------------------------------------------------
(* Properties *)

\* C1. Card conservation: in every state reached by ticks from any initial
\* deck, the draw pile, the hand and the discard pile together hold each
\* CardId as many times as the deck given to GameState::new did.
C1_CardConservation == PileCount(game_state) = deck0

\* C1 witness: a card has been played and each of the three piles holds a card.
C1_Witness ==
    /\ last.op = "tick" /\ last.consumed.kind = "PlayCard" /\ panic = ""
    /\ game_state.draw # <<>> /\ game_state.hand # <<>> /\ game_state.discard # <<>>

\* C2. No sequence of key inputs and ticks handled by the host aborts the
\* process.
C2_NoCrash == panic = ""

\* C3. After every completed operation (add_entity or tick), no entity of the
\* live id list has a Hull attribute that is <= 0.
C3_NoDeadEntityLive ==
    panic = "" =>
        \A i \in 1..Len(game_state.entities) :
            LET e == game_state.entities[i]
            IN  (e \in DOMAIN game_state.entity_state
                    /\ "Hull" \in DOMAIN game_state.entity_state[e])
                => game_state.entity_state[e]["Hull"] > 0

\* C4. A PlayCard tick that completes removes the card at the hand index from
\* the hand, keeping the order of the others, appends that CardId to the
\* discard pile and leaves the draw pile as it was, whether or not the play
\* removes the target.
C4_PlayMovesCard ==
    [][(TickStepOf("PlayCard") /\ panic' = "") =>
            LET idx == last'.consumed.idx
            IN  /\ InHand(idx, game_state.hand)
                /\ game_state'.hand = RemoveAt(game_state.hand, idx + 1)
                /\ game_state'.discard =
                        Append(game_state.discard, game_state.hand[idx + 1])
                /\ game_state'.draw = game_state.draw]_vars

\* C4 witness: a play from a hand of at least three cards has completed and
\* removed its target.
C4_Witness ==
    /\ last.op = "tick" /\ last.consumed.kind = "PlayCard" /\ panic = ""
    /\ last.removed
    /\ Len(game_state.hand) >= 2

\* C5. A Draw tick with an empty draw pile and a non-empty discard pile empties
\* the discard pile, adds exactly one card at the end of the hand, and leaves a
\* draw pile that with the drawn card is a permutation of the discard pile
\* before.
C5_ReshuffleOnDraw ==
    [][(TickStepOf("Draw") /\ game_state.draw = <<>> /\ game_state.discard # <<>>) =>
            /\ panic' = ""
            /\ game_state'.discard = <<>>
            /\ Len(game_state'.hand) = Len(game_state.hand) + 1
            /\ Front(game_state'.hand) = game_state.hand
            /\ Append(game_state'.draw, Last(game_state'.hand))
                    \in Perms(game_state.discard)]_vars

\* C5 witness: a Draw has reshuffled a discard pile of at least two cards.
C5_Witness ==
    /\ last.op = "tick" /\ last.reshuffled
    /\ game_state.draw # <<>>

\* The outcomes of n consecutive Draw ticks of g.
RECURSIVE DrawTicks(_, _)
DrawTicks(g, n) ==
    IF n = 0 THEN {g}
    ELSE UNION {TickDraw(g1) : g1 \in DrawTicks(g, n - 1)}

\* C6. BeginTurn adds min(4, |draw| + |discard|) cards to the hand and leaves
\* the piles as four consecutive Draw ticks can leave them.
C6_BeginTurnIsFourDraws ==
    [][TickStepOf("BeginTurn") =>
            /\ Len(game_state'.hand) =
                    Len(game_state.hand)
                    + Min(BeginTurnCount,
                          Len(game_state.draw) + Len(game_state.discard))
            /\ \E g \in DrawTicks(game_state, BeginTurnCount) :
                    /\ game_state'.draw = g.draw
                    /\ game_state'.hand = g.hand
                    /\ game_state'.discard = g.discard]_vars

\* The step leaves TargetSelect by a choice of target: the resolved state
\* carries the card index and the one candidate.
ChooseResolves ==
    (gui_state.state = "TargetSelect" /\ KeyStep("1")) =>
        /\ panic' = ""
        /\ gui_state'.state = "TargetSelectComplete"
        /\ gui_state'.card_idx = gui_state.card_idx
        /\ gui_state'.target = gui_state.targets[1]

\* The step is the host's next call in the resolved state: the pending action
\* becomes PlayCard(target, card index) (update ticks it at once) and the
\* workflow is in Combat with no pending card index.
ResolvedEmits ==
    (gui_state.state = "TargetSelectComplete" /\ (UpdateStep \/ last'.op = "key")) =>
        LET emitted == PlayCard(gui_state.target, gui_state.card_idx[1])
        IN  /\ last'.op = "key" => (panic' = "" /\ game_state'.action = emitted)
            /\ UpdateStep => last'.consumed = emitted
            /\ panic' = "" =>
                    (gui_state'.state = "Combat" /\ gui_state'.card_idx = None)

\* The step keeps a pending PlayCard on the enemy (only a target selection
\* emits one) until a tick runs.
EmittedStaysPending ==
    (/\ game_state.action.kind = "PlayCard"
     /\ game_state.enemy # None
     /\ game_state.action.target = game_state.enemy[1]
     /\ last'.op = "key") => game_state'.action = game_state.action

C9_EmittedIndexInHand ==
    [][(UpdateStep /\ last'.consumed.kind = "PlayCard") =>
            InHand(last'.consumed.idx, game_state.hand)]_vars

\* C10. A PlayCard tick whose hand index is out of range does not abort: it
\* is rejected and the piles stay as they were.
C10_InvalidIndexRejected ==
    [][(TickStepOf("PlayCard") /\ ~InHand(last'.consumed.idx, game_state.hand)) =>
            /\ panic' = ""
            /\ game_state'.hand = game_state.hand
            /\ game_state'.discard = game_state.discard]_vars

\* The ids of the live id list.
LiveIds(g) == {g.entities[i] : i \in 1..Len(g.entities)}

\* The step is a registration: add_entity pushed an id on the live id list.
AddEntityStep == Len(game_state'.entities) = Len(game_state.entities) + 1

\* C11. A lookup failure is a recoverable error result and never aborts: a
\* PlayCard tick (hand index in range) whose CardId has no catalog entry, or
\* whose target is not a live entity, leaves the process running.
C11_LookupFailureRecoverable ==
    [][(/\ TickStepOf("PlayCard")
        /\ InHand(last'.consumed.idx, game_state.hand)
        /\ \/ game_state.hand[last'.consumed.idx + 1] \notin DOMAIN game_state.cards
           \/ last'.consumed.target \notin DOMAIN game_state.entity_state)
            => panic' = ""]_vars

\* C12. Registry consistency: in every state reached by registrations and
\* ticks, an EntityId is in the live id list exactly when it has an entry in
\* the entity_state map, and the live id list holds no id twice.
C12_RegistryConsistent ==
    /\ LiveIds(game_state) = DOMAIN game_state.entity_state
    /\ \A i, j \in 1..Len(game_state.entities) :
            i # j => game_state.entities[i] # game_state.entities[j]

\* C13. Every registration that generates its id gets an EntityId that differs
\* from every live id, and it neither replaces nor drops the state of an
\* entity registered before.
C13_RegistrationKeepsEntities ==
    [][AddEntityStep =>
            /\ Last(game_state'.entities) \notin LiveIds(game_state)
            /\ \A e \in DOMAIN game_state.entity_state :
                    /\ e \in DOMAIN game_state'.entity_state
                    /\ game_state'.entity_state[e] = game_state.entity_state[e]]_vars

\* The value of attribute k in a State, 0 when the key is absent.
ValueOf(st, k) == IF k \in DOMAIN st THEN st[k] ELSE 0

\* The sum over the first n effects of the card of what each gives key k.
RECURSIVE EffectSum(_, _, _, _, _)
EffectSum(effects, n, k, g, ent_id) ==
    IF n = 0 THEN 0
    ELSE EffectSum(effects, n - 1, k, g, ent_id)
            + ValueOf(calculate(effects[n], g, ent_id), k)

\* Some effect of the card gives a value for key k.
Touches(effects, k, g, ent_id) ==
    \E i \in 1..Len(effects) : k \in DOMAIN calculate(effects[i], g, ent_id)

\* C14. A PlayCard tick of a catalogued card on a live target applies the
\* effects as one merged delta: afterwards each attribute an effect gives a
\* value for is its value before the play (0 if absent) plus the sum of all the
\* effects' values for it, and every other attribute is as it was; the target
\* is gone only when that sum leaves Hull <= 0.  No state holds only some of
\* the effects.
C14_MergedDeltaApplied ==
    [][(/\ TickStepOf("PlayCard")
        /\ InHand(last'.consumed.idx, game_state.hand)
        /\ game_state.hand[last'.consumed.idx + 1] \in DOMAIN game_state.cards
        /\ last'.consumed.target \in DOMAIN game_state.entity_state) =>
            LET t == last'.consumed.target
                effects == game_state.cards[game_state.hand[last'.consumed.idx + 1]].effects
                before == game_state.entity_state[t]
                sum(k) == EffectSum(effects, Len(effects), k, game_state, t)
            IN  IF t \in DOMAIN game_state'.entity_state
                THEN \A k \in Attribute :
                        LET after == game_state'.entity_state[t]
                        IN  IF Touches(effects, k, game_state, t)
                            THEN /\ k \in DOMAIN after
                                 /\ after[k] = ValueOf(before, k) + sum(k)
                            ELSE /\ k \in DOMAIN after <=> k \in DOMAIN before
                                 /\ ValueOf(after, k) = ValueOf(before, k)
                ELSE /\ panic' = ""
                     /\ ValueOf(before, "Hull") + sum("Hull") <= 0]_vars

\* C14 witness: a card of three effects, two of them on the same key, has been
\* played on a target that is still live.
C14_Witness ==
    /\ last.op = "tick" /\ last.consumed.kind = "PlayCard" /\ panic = ""
    /\ game_state.cards["Shields"].effects
            = <<"IncreaseShields", "DamageHull", "IncreaseShields">>
    /\ last.consumed.target \in DOMAIN game_state.entity_state
    /\ game_state.entity_state[last.consumed.target] = [Hull |-> 1, Shields |-> 2]

\* The outcome of n calls of apply_effect with the same delta.
RECURSIVE ApplyTimes(_, _, _, _)
ApplyTimes(g, entity_id, delta, n) ==
    IF n = 0 THEN Ok(g)
    ELSE LET r == ApplyTimes(g, entity_id, delta, n - 1)
         IN  IF r.panic # "" THEN r ELSE apply_effect(r.g, entity_id, delta)

\* C15. Applying a delta to a live entity is additive per key: each key of the
\* delta becomes its value before (0 if absent) plus the delta's value and the
\* other keys stay as they were; and it is not idempotent: n applications of
\* the same delta that leave the entity live change each key by n times the
\* delta's value.
C15_DeltaAdditive ==
    [][(/\ last'.op = "apply_effect"
        /\ last'.consumed.target \in DOMAIN game_state.entity_state) =>
            LET e == last'.consumed.target
                delta == last'.consumed.delta
                before == game_state.entity_state[e]
            IN  /\ e \in DOMAIN game_state'.entity_state =>
                    \A k \in Attribute :
                        LET after == game_state'.entity_state[e]
                        IN  IF k \in DOMAIN delta
                            THEN /\ k \in DOMAIN after
                                 /\ after[k] = ValueOf(before, k) + delta[k]
                            ELSE /\ k \in DOMAIN after <=> k \in DOMAIN before
                                 /\ ValueOf(after, k) = ValueOf(before, k)
                /\ \A n \in 1..MaxApply :
                        LET r == ApplyTimes(game_state, e, delta, n)
                        IN  (r.panic = "" /\ e \in DOMAIN r.g.entity_state) =>
                                /\ \A k \in DOMAIN delta :
                                        r.g.entity_state[e][k]
                                            = ValueOf(before, k) + n * delta[k]
                                /\ n > 1 => r.g.entity_state[e]
                                                # game_state'.entity_state[e]]_vars

\* C15 witness: with no card played, Shields + 1 has been applied a second time
\* to an entity whose Shields was 0: it is 2.
C15_Witness ==
    /\ last.op = "apply_effect" /\ panic = ""
    /\ game_state.hand = <<>> /\ game_state.discard = <<>>
    /\ last.consumed.delta = [k \in {"Shields"} |-> 1]
    /\ last.consumed.target \in DOMAIN game_state.entity_state
    /\ game_state.entity_state[last.consumed.target] = [Hull |-> 2, Shields |-> 2]

\* The top n cards of a pile in the order pop() gives them.
Popped(pile, n) == [i \in 1..n |-> pile[Len(pile) - i + 1]]

\* The step is a tick that draws count cards.
DrawStepOf(count) ==
    \/ (count = 1 /\ TickStepOf("Draw"))
    \/ (count = BeginTurnCount /\ TickStepOf("BeginTurn"))

\* C16. With an empty discard pile a draw of count cards (Draw: 1, BeginTurn:
\* 4) never fails: it moves min(count, |draw|) cards from the end of the draw
\* pile to the end of the hand and leaves the rest of the draw pile in place;
\* with the draw pile empty too no pile changes.
C16_ShortDeckDraw ==
    [][\A count \in {1, BeginTurnCount} :
        (DrawStepOf(count) /\ game_state.discard = <<>>) =>
            LET n == Min(count, Len(game_state.draw))
            IN  /\ panic' = ""
                /\ game_state'.draw
                        = SubSeq(game_state.draw, 1, Len(game_state.draw) - n)
                /\ game_state'.hand = game_state.hand \o Popped(game_state.draw, n)
                /\ game_state'.discard = <<>>]_vars

\* C16 witness: BeginTurn has drawn a whole deck of fewer than four cards, of
\* both kinds.
C16_Witness ==
    /\ last.op = "tick" /\ last.consumed.kind = "BeginTurn" /\ panic = ""
    /\ game_state.draw = <<>> /\ game_state.discard = <<>>
    /\ Len(game_state.hand) \in 2..(BeginTurnCount - 1)
    /\ game_state.hand[1] # game_state.hand[2]

\* C17. An EndTurn tick moves the whole hand, in order, onto the end of the
\* discard pile: the hand is empty, the discard pile is what it was followed
\* by the hand, and the draw pile is as it was.
C17_EndTurnDiscardsHand ==
    [][TickStepOf("EndTurn") =>
            /\ panic' = ""
            /\ game_state'.hand = <<>>
            /\ game_state'.discard = game_state.discard \o game_state.hand
            /\ game_state'.draw = game_state.draw]_vars

\* C17 witness: EndTurn has run and the discard pile holds cards of both
\* kinds, with a card left in the draw pile.
C17_Witness ==
    /\ last.op = "tick" /\ last.consumed.kind = "EndTurn" /\ panic = ""
    /\ game_state.hand = <<>> /\ game_state.draw # <<>>
    /\ Len(game_state.discard) >= 2
    /\ game_state.discard[1] # game_state.discard[2]

\* The step is a digit key in Combat that selects a card of the hand whose
\* catalog target is tgt.
SelectStep(tgt) ==
    /\ gui_state.state = "Combat"
    /\ last'.op = "key" /\ last'.key \in Digits
    /\ to_digit(last'.key) <= Len(game_state.hand)
    /\ game_state.cards[game_state.hand[to_digit(last'.key)]].target = tgt

\* C18. Selecting in Combat a card that targets a single opponent moves the
\* workflow to TargetSelect with that card's hand index and the candidate list
\* holding exactly the current enemy id, and emits no action: the game, its
\* pending action included, is as it was.
C18_SelectEntersTargetSelect ==
    [][SelectStep("Single") =>
            /\ panic' = ""
            /\ gui_state'.state = "TargetSelect"
            /\ gui_state'.card_idx = Some(to_digit(last'.key) - 1)
            /\ gui_state'.targets = <<game_state.enemy[1]>>
            /\ game_state' = game_state]_vars

\* C18 witness: the second card of the hand has been selected and the workflow
\* waits for its target.
C18_Witness ==
    /\ last.op = "key" /\ last.key = "2" /\ last.from = "Combat"
    /\ gui_state.state = "TargetSelect"
    /\ gui_state.card_idx = Some(1)

\* C19. Selecting in Combat a card that targets the player sets the pending
\* action to PlayCard(player id, hand index) and leaves the workflow in
\* Combat as it was: TargetSelect is not entered.
C19_SelfCardEmitsPlay ==
    [][SelectStep("Player") =>
            /\ panic' = ""
            /\ game_state'.action
                    = PlayCard(game_state.player, to_digit(last'.key) - 1)
            /\ gui_state' = gui_state]_vars

\* C19 witness: the second card of the hand, a Shields card, has been selected
\* and its play on the player is pending.
C19_Witness ==
    /\ last.op = "key" /\ last.key = "2" /\ last.from = "Combat"
    /\ gui_state.state = "Combat"
    /\ game_state.action = PlayCard(PlayerId, 1)

\* C20. The workflow state carries a target id exactly when it is
\* TargetSelectComplete, and it gets there only from TargetSelect by the key
\* that chooses the target, with one of the candidates.
C20_TargetOnlyWhenResolved ==
    [][/\ "target" \in DOMAIN gui_state <=> gui_state.state = "TargetSelectComplete"
       /\ "target" \in DOMAIN gui_state' <=> gui_state'.state = "TargetSelectComplete"
       /\ (gui_state'.state = "TargetSelectComplete" /\ gui_state' # gui_state) =>
            /\ gui_state.state = "TargetSelect"
            /\ KeyStep("1")
            /\ \E i \in 1..Len(gui_state.targets) :
                    gui_state'.target = gui_state.targets[i]]_vars

\* C20 witness: the target has been chosen and the resolved state carries it.
C20_Witness ==
    /\ last.op = "key" /\ last.key = "1" /\ last.from = "TargetSelect"
    /\ gui_state.state = "TargetSelectComplete"
    /\ gui_state.target = EnemyId

\* C21. tick never changes the pending action: after a tick of any kind the
\* pending action is the one the tick ran.  A tick that follows a tick with
\* the pending action left as it was runs that action again on the game as
\* the first tick left it (a second Draw draws a second card).
C21_TickKeepsAction ==
    [][last'.op = "tick" =>
            /\ game_state'.action = last'.consumed
            /\ (last.op = "tick" /\ last'.consumed = game_state.action) =>
                    /\ \E o \in tick(game_state) :
                            game_state' = o.g /\ panic' = o.panic
                    /\ (last'.consumed = Draw /\ game_state.draw # <<>>) =>
                            game_state'.hand
                                = Append(game_state.hand, Last(game_state.draw))]_vars

\* C21 witness: Draw is still pending after a Draw tick that followed draws:
\* two cards are in the hand and one is left to draw.
C21_Witness ==
    /\ last.op = "tick" /\ last.consumed = Draw /\ panic = ""
    /\ game_state.action = Draw
    /\ Len(game_state.hand) = 2 /\ Len(game_state.draw) = 1
    /\ game_state.discard = <<>>

\* The CardIds of a pile.
CardsOf(pile) == {pile[i] : i \in 1..Len(pile)}

\* C22. Catalog coverage: in every state reached from GameState::new(cards,
\* deck), every CardId of the draw pile, the hand and the discard pile has an
\* entry in the card catalog.
C22_CatalogCoverage ==
    CardsOf(game_state.draw) \cup CardsOf(game_state.hand)
        \cup CardsOf(game_state.discard) \subseteq DOMAIN game_state.cards

\* C23. Applying a delta that adds no Hull to a live entity whose state has no
\* Hull key succeeds: no abort, the delta's keys are added, and the entity
\* stays in the live id list and in the map.
C23_NoHullDeltaSucceeds ==
    [][(/\ last'.op = "apply_effect"
        /\ last'.consumed.target \in DOMAIN game_state.entity_state
        /\ "Hull" \notin DOMAIN game_state.entity_state[last'.consumed.target]
        /\ "Hull" \notin DOMAIN last'.consumed.delta) =>
            LET e == last'.consumed.target
                delta == last'.consumed.delta
            IN  /\ panic' = ""
                /\ game_state'.entities = game_state.entities
                /\ e \in DOMAIN game_state'.entity_state
                /\ \A k \in DOMAIN delta :
                        game_state'.entity_state[e][k]
                            = ValueOf(game_state.entity_state[e], k) + delta[k]]_vars

\* C24. Determinism apart from shuffling: the outcome of a registration with a
\* generated id, and of a tick that does not reshuffle, is a function of the
\* game state and the operation (two runs from this state that perform the
\* same operation are in equal states with equal ids).
C24_Deterministic ==
    /\ \A entity \in NewEntities :
            \A i, j \in gen_id :
                add_entity(game_state, i, entity) = add_entity(game_state, j, entity)
    /\ \A a \in PendingActions(game_state) :
            ~(a = Draw /\ game_state.draw = <<>> /\ game_state.discard # <<>>) =>
                Cardinality(tick([game_state EXCEPT !.action = a])) = 1

\* Every candidate of the target selection is a live entity of g.
CandidatesLive(gui, g) ==
    gui.state = "TargetSelect" =>
        \A i \in 1..Len(gui.targets) :
            /\ gui.targets[i] \in LiveIds(g)
            /\ gui.targets[i] \in DOMAIN g.entity_state

EnemyStaysLive == EnemyId \in DOMAIN game_state.entity_state

\* The step is a key input that leaves a pending action set by an earlier key
\* input in place.
KeyKeepsPending ==
    (game_state.action.kind \in {"EndTurn", "PlayCard"} /\ last'.op = "key") =>
        game_state'.action = game_state.action

\* The step is an update whose one tick runs the pending action it finds (the
\* PlayCard of a resolved target selection when there is one) and, when the
\* tick completes, leaves Await pending; an update that follows a completed
\* update with no key input between them runs Await.
UpdateRunsPending ==
    UpdateStep =>
        /\ last'.consumed =
                IF gui_state.state = "TargetSelectComplete"
                THEN PlayCard(gui_state.target, gui_state.card_idx[1])
                ELSE game_state.action
        /\ panic' = "" => game_state'.action = Await
        /\ (last.op = "update" /\ gui_state.state # "TargetSelectComplete") =>
                last'.consumed = Await

C27_PlayCardAllOrNothing ==
    [][(TickStepOf("PlayCard") /\ panic' # "") =>
            /\ game_state'.draw = game_state.draw
            /\ game_state'.hand = game_state.hand
            /\ game_state'.discard = game_state.discard
            /\ game_state'.entities = game_state.entities
            /\ game_state'.entity_state = game_state.entity_state]_vars

\* C28. Frame of each action.  An Await tick changes nothing of the game.
\* Draw, BeginTurn and EndTurn ticks change nothing but the piles.  A PlayCard
\* tick leaves the catalog as it is, keeps every entity other than its target
\* with its state, and takes no id other than the target off the live id list
\* (and the target at most once).
C28_ActionFrames ==
    [][last'.op = "tick" =>
        LET kind == last'.consumed.kind
        IN  /\ kind = "Await" =>
                /\ panic' = ""
                /\ game_state' = [game_state EXCEPT !.action = Await]
            /\ kind \in {"Draw", "BeginTurn", "EndTurn"} =>
                /\ game_state'.entities = game_state.entities
                /\ game_state'.entity_state = game_state.entity_state
                /\ game_state'.cards = game_state.cards
                /\ game_state'.player = game_state.player
                /\ game_state'.enemy = game_state.enemy
            /\ kind = "PlayCard" =>
                LET t == last'.consumed.target
                IN  /\ game_state'.cards = game_state.cards
                    /\ DOMAIN game_state'.entity_state
                            \subseteq DOMAIN game_state.entity_state
                    /\ \A e \in DOMAIN game_state.entity_state \ {t} :
                            /\ e \in DOMAIN game_state'.entity_state
                            /\ game_state'.entity_state[e] = game_state.entity_state[e]
                    /\ \A e \in EntityId \ {t} :
                            Count(game_state'.entities, e)
                                = Count(game_state.entities, e)
                    /\ Count(game_state'.entities, t) \in
                            {Count(game_state.entities, t),
                             Count(game_state.entities, t) - 1}]_vars

\* C28 witness: a play has removed its target and another entity is live.
C28_Witness ==
    /\ last.op = "tick" /\ last.consumed.kind = "PlayCard" /\ panic = ""
    /\ last.removed
    /\ last.consumed.target \notin DOMAIN game_state.entity_state
    /\ \E e \in DOMAIN game_state.entity_state :
            e \in LiveIds(game_state) /\ e # last.consumed.target

====
